---- MODULE Spec2Model ----
(***************************************************************************)
(* Conference-room booking backend (app_enhanced.py over db_helper).       *)
(*                                                                         *)
(* Strings that the code compares lexically are sequences of fixed-width  *)
(* fields, each field a number whose order is the order of its text:       *)
(*   a date "YYYY-MM-DD"              is <<day>>                           *)
(*   a timestamp "YYYY-MM-DDTHH:MM"   is <<day, sep, hhmm>>                *)
(*   a timestamp "YYYY-MM-DDTHH:MM:SS" is <<day, sep, hhmm, ss>>           *)
(* sep is the code point of the separator (84 for 'T'), hhmm               *)
(* is the minute of the day and ss the seconds field.  An instant is a     *)
(* number of seconds, (day * 1440 + hhmm) * 60 + ss.                       *)
(***************************************************************************)
EXTENDS Integers, Sequences, FiniteSets, TLC

VARIABLES bookings, rooms, now, resp, pc, held, BOOKINGS, SECRET_KEY, issued

vars == <<bookings, rooms, now, resp, pc, held, BOOKINGS, SECRET_KEY, issued>>

\* ------------------------------------------------------------------ bounds

\* Largest number of items the Bookings table holds in the model.
MaxBookings == 2

\* ------------------------------------------------------- program constants

MinDurationMinutes == 30
MaxDurationMinutes == 240
LeadTimeMinutes == 60
MinutesPerDay == 24 * 60
SecondsPerMinute == 60

\* The code point of the separator in "YYYY-MM-DDTHH:MM:SS".
SepT == 84

\* None, which Python's truth tests treat like the empty string.
NoneValue == <<>>
\* The outcome of a parse that raises ValueError (no instant is negative).
ValueError == -1

\* ------------------------------------------------------------- the strings

\* Python's str < str (and DynamoDB's ordering of string keys): the first
\* differing field decides, and a proper prefix is smaller.
RECURSIVE LexLess(_, _)
LexLess(a, b) ==
    IF b = <<>> THEN FALSE
    ELSE IF a = <<>> THEN TRUE
    ELSE IF Head(a) < Head(b) THEN TRUE
    ELSE IF Head(a) > Head(b) THEN FALSE
    ELSE LexLess(Tail(a), Tail(b))

LexGeq(a, b) == ~LexLess(a, b)

\* datetime.fromisoformat: a date alone is midnight; the separator may be any
\* single character; hours run 00..23 and seconds 00..59.
fromisoformat(s) ==
    IF Len(s) = 1 /\ s[1] >= 1 THEN s[1] * MinutesPerDay * SecondsPerMinute
    ELSE IF Len(s) \in {3, 4} /\ s[1] >= 1 /\ s[3] < MinutesPerDay
            /\ (Len(s) = 4 => s[4] < SecondsPerMinute)
         THEN (s[1] * MinutesPerDay + s[3]) * SecondsPerMinute
              + (IF Len(s) = 4 THEN s[4] ELSE 0)
    ELSE ValueError

\* ------------------------------------------------------------ the database

\* An identifier that a stored item may carry: that of the newest item.
uuid4_of_newest(table) == IF table = <<>> THEN 1 ELSE Len(table)

\* uuid.uuid4(): an identifier no stored item carries.
uuid4(table) == Len(table) + 1

\* bookings_table.put_item(Item=booking_data): the item stored under its key.
create_booking(table, booking_data) ==
    IF booking_data.booking_id \in DOMAIN table
    THEN [table EXCEPT ![booking_data.booking_id] = booking_data]
    ELSE Append(table, booking_data)

\* bookings_table.get_item(Key={'booking_id': booking_id}): <<item>>, or None.
get_booking_by_id(table, booking_id) ==
    IF booking_id \in DOMAIN table THEN <<table[booking_id]>> ELSE NoneValue

\* A cancellation that removes the item, as delete_booking would.
update_booking_status_removing(table, booking_id, status) ==
    SubSeq(table, 1, booking_id - 1) \o SubSeq(table, booking_id + 1, Len(table))

\* bookings_table.update_item(... SET #status = :status).
update_booking_status(table, booking_id, status) ==
    [table EXCEPT ![booking_id].status = status]

\* Query of room_id-start_time-index: the room's items, and with start_date
\* only those whose start_time string is >= start_date.
get_bookings_by_room(table, room_id, start_date) ==
    {i \in DOMAIN table :
        /\ table[i].room_id = room_id
        /\ (start_date # NoneValue => LexGeq(table[i].start_time, start_date))}

\* A scan that does not skip the cancelled bookings.
ConflictsCountingCancelled(table, room_id, date, start_time, end_time) ==
    {i \in get_bookings_by_room(table, room_id, date) :
        /\ table[i].date = date
        /\ LexLess(start_time, table[i].end_time)
        /\ LexLess(table[i].start_time, end_time)}

\* The scan of check_room_availability: the items that make it answer False.
Conflicts(table, room_id, date, start_time, end_time) ==
    {i \in get_bookings_by_room(table, room_id, date) :
        /\ table[i].status # "cancelled"
        /\ table[i].date = date
        /\ LexLess(start_time, table[i].end_time)
        /\ LexLess(table[i].start_time, end_time)}

check_room_availability(table, room_id, date, start_time, end_time) ==
    IF Conflicts(table, room_id, date, start_time, end_time) # {}
    THEN <<FALSE, "Room is already booked for this time slot">>
    ELSE <<TRUE, "Room is available">>

\* ------------------------------------------------------------ the handlers

\* What a handler answers: the status code, the message (with the field name
\* a "Missing required field: " message ends in) and the booking it is about.
Response(op, code, message, booking_id) ==
    [op |-> op, code |-> code, message |-> message, field |-> "",
     booking_id |-> booking_id]

NoResponse == Response("none", 0, "", 0)

RequiredFields == <<"room_id", "user_email", "date", "start_time", "end_time">>

\* The first required field the request body lacks, in the order of the loop.
MissingFields(data) == {k \in 1..Len(RequiredFields) : RequiredFields[k] \notin DOMAIN data}

FirstMissing(data) ==
    RequiredFields[CHOOSE k \in MissingFields(data) : \A j \in MissingFields(data) : k <= j]

\* (end_dt - start_dt).total_seconds() / 60 compared with a number of minutes
\* m: x / 60 < m exactly when x < m * 60.
duration_seconds(data) == fromisoformat(data.end_time) - fromisoformat(data.start_time)

\* The checks with the lower limit off by one: 30 minutes refused.
create_checks_strict(table, data) ==
    IF MissingFields(data) # {}
    THEN [Response("create", 400, "Missing required field: ", 0)
              EXCEPT !.field = FirstMissing(data)]
    ELSE IF fromisoformat(data.start_time) = ValueError
            \/ fromisoformat(data.end_time) = ValueError
    THEN Response("create", 400, "Invalid datetime format", 0)
    ELSE IF duration_seconds(data) <= MinDurationMinutes * SecondsPerMinute
    THEN Response("create", 400, "Minimum booking duration is 30 minutes", 0)
    ELSE IF duration_seconds(data) > MaxDurationMinutes * SecondsPerMinute
    THEN Response("create", 400, "Maximum booking duration is 4 hours", 0)
    ELSE IF ~check_room_availability(table, data.room_id, data.date,
                                     data.start_time, data.end_time)[1]
    THEN Response("create", 409, "Room is already booked for this time slot", 0)
    ELSE NoResponse

\* The checks without the upper limit on the duration.
create_checks_no_maximum(table, data) ==
    IF MissingFields(data) # {}
    THEN [Response("create", 400, "Missing required field: ", 0)
              EXCEPT !.field = FirstMissing(data)]
    ELSE IF fromisoformat(data.start_time) = ValueError
            \/ fromisoformat(data.end_time) = ValueError
    THEN Response("create", 400, "Invalid datetime format", 0)
    ELSE IF duration_seconds(data) < MinDurationMinutes * SecondsPerMinute
    THEN Response("create", 400, "Minimum booking duration is 30 minutes", 0)
    ELSE IF ~check_room_availability(table, data.room_id, data.date,
                                     data.start_time, data.end_time)[1]
    THEN Response("create", 409, "Room is already booked for this time slot", 0)
    ELSE NoResponse

\* The checks with the availability check before the duration checks.
create_checks_conflict_first(table, data) ==
    IF MissingFields(data) # {}
    THEN [Response("create", 400, "Missing required field: ", 0)
              EXCEPT !.field = FirstMissing(data)]
    ELSE IF fromisoformat(data.start_time) = ValueError
            \/ fromisoformat(data.end_time) = ValueError
    THEN Response("create", 400, "Invalid datetime format", 0)
    ELSE IF ~check_room_availability(table, data.room_id, data.date,
                                     data.start_time, data.end_time)[1]
    THEN Response("create", 409, "Room is already booked for this time slot", 0)
    ELSE IF duration_seconds(data) < MinDurationMinutes * SecondsPerMinute
    THEN Response("create", 400, "Minimum booking duration is 30 minutes", 0)
    ELSE IF duration_seconds(data) > MaxDurationMinutes * SecondsPerMinute
    THEN Response("create", 400, "Maximum booking duration is 4 hours", 0)
    ELSE NoResponse

\* create_booking_endpoint up to and including the availability check: the
\* error response it returns, or NoResponse when it goes on to write.
create_checks(table, data) ==
    IF MissingFields(data) # {}
    THEN [Response("create", 400, "Missing required field: ", 0)
              EXCEPT !.field = FirstMissing(data)]
    ELSE IF fromisoformat(data.start_time) = ValueError
            \/ fromisoformat(data.end_time) = ValueError
    THEN Response("create", 400, "Invalid datetime format", 0)
    ELSE IF duration_seconds(data) < MinDurationMinutes * SecondsPerMinute
    THEN Response("create", 400, "Minimum booking duration is 30 minutes", 0)
    ELSE IF duration_seconds(data) > MaxDurationMinutes * SecondsPerMinute
    THEN Response("create", 400, "Maximum booking duration is 4 hours", 0)
    ELSE IF ~check_room_availability(table, data.room_id, data.date,
                                     data.start_time, data.end_time)[1]
    THEN Response("create", 409, "Room is already booked for this time slot", 0)
    ELSE NoResponse

\* The record create_booking_endpoint builds (without user_id and created_at,
\* which no handler reads).
booking_record(table, data) ==
    [booking_id |-> uuid4(table),
     room_id    |-> data.room_id,
     user_email |-> data.user_email,
     date       |-> data.date,
     start_time |-> data.start_time,
     end_time   |-> data.end_time,
     status     |-> "confirmed"]

\* create_booking_endpoint: the response and the table it leaves.
create_booking_endpoint(table, data) ==
    LET refusal == create_checks(table, data) IN
    IF refusal # NoResponse
    THEN [resp |-> refusal, table |-> table]
    ELSE [resp |-> Response("create", 201, "Booking created successfully", uuid4(table)),
          table |-> create_booking(table, booking_record(table, data))]

\* The JSON body of the 201 answer of create_booking_endpoint: status,
\* message and the record under 'booking'.
created_body(record) ==
    [status  |-> "success",
     message |-> "Booking created successfully",
     booking |-> record]

\* booking_start - now, in seconds, of a stored booking.
time_until_booking(booking, t) == fromisoformat(booking[1].start_time) - t

\* The lead-time test with exactly one hour refused too.
TooLateInclusive(booking, t) ==
    time_until_booking(booking, t) <= LeadTimeMinutes * SecondsPerMinute

TooLate(booking, t) == time_until_booking(booking, t) < LeadTimeMinutes * SecondsPerMinute

\* A cancellation that refuses a booking already cancelled.
cancel_booking_refusing_cancelled(table, t, booking_id) ==
    LET booking == get_booking_by_id(table, booking_id) IN
    IF booking = NoneValue
    THEN [resp |-> Response("cancel", 404, "Booking not found", 0), table |-> table]
    ELSE IF booking[1].status = "cancelled"
    THEN [resp |-> Response("cancel", 400, "Booking is already cancelled", booking_id),
          table |-> table]
    ELSE IF TooLate(booking, t)
    THEN [resp |-> Response("cancel", 403,
                            "Cannot cancel booking less than 1 hour before start time",
                            booking_id),
          table |-> table]
    ELSE [resp |-> Response("cancel", 200, "Booking cancelled successfully", booking_id),
          table |-> update_booking_status(table, booking_id, "cancelled")]

\* cancel_booking: the response and the table it leaves.
cancel_booking(table, t, booking_id) ==
    LET booking == get_booking_by_id(table, booking_id) IN
    IF booking = NoneValue
    THEN [resp |-> Response("cancel", 404, "Booking not found", 0), table |-> table]
    ELSE IF TooLate(booking, t)
    THEN [resp |-> Response("cancel", 403,
                            "Cannot cancel booking less than 1 hour before start time",
                            booking_id),
          table |-> table]
    ELSE [resp |-> Response("cancel", 200, "Booking cancelled successfully", booking_id),
          table |-> update_booking_status(table, booking_id, "cancelled")]

\* A modification in place that sets the booking's status back to confirmed.
modify_booking_reactivating(table, t, booking_id, data) ==
    LET booking == get_booking_by_id(table, booking_id) IN
    IF booking = NoneValue
    THEN [resp |-> Response("modify", 404, "Booking not found", 0), table |-> table]
    ELSE IF TooLate(booking, t)
    THEN [resp |-> Response("modify", 403,
                            "Cannot modify booking less than 1 hour before start time",
                            booking_id),
          table |-> table]
    ELSE [resp |-> Response("modify", 200, "Booking modified successfully", booking_id),
          table |-> update_booking_status(table, booking_id, "confirmed")]

\* modify_booking: the request body is read and nothing is done with it.
modify_booking(table, t, booking_id, data) ==
    LET booking == get_booking_by_id(table, booking_id) IN
    IF booking = NoneValue
    THEN [resp |-> Response("modify", 404, "Booking not found", 0), table |-> table]
    ELSE IF TooLate(booking, t)
    THEN [resp |-> Response("modify", 403,
                            "Cannot modify booking less than 1 hour before start time",
                            booking_id),
          table |-> table]
    ELSE [resp |-> Response("modify", 200, "Booking modified successfully", booking_id),
          table |-> table]

\* ------------------------------------------------- the calls that can fail

\* What a table call that raises ClientError leaves its helper with: every
\* helper catches the error and answers [] (query, scan) or None (get_item),
\* as the call would on a table without items.
Read(table, ok) == IF ok THEN table ELSE <<>>

\* The same for the Rooms table.
ReadRooms(catalog, ok) == IF ok THEN catalog ELSE {}

\* rooms_table.scan(): the items of the Rooms table.
get_all_rooms(catalog) == catalog

\* rooms_table.get_item(Key={'room_id': room_id}): <<item>>, or None.
get_room_by_id(catalog, room_id) ==
    IF \E r \in catalog : r.room_id = room_id
    THEN <<CHOOSE r \in catalog : r.room_id = room_id>>
    ELSE NoneValue

\* bookings_table.scan(FilterExpression=Attr('user_email').eq(user_email)).
get_user_bookings(table, user_email) ==
    {i \in DOMAIN table : table[i].user_email = user_email}

\* The email block of create_booking_endpoint and cancel_booking, and the
\* line it prints: room_info.get raises when the lookup gave None, the
\* sender answers (True, ...) or (False, ...), or something in between
\* raises; every exception is caught where it is raised.
send_email(room_info, mail) ==
    IF room_info = NoneValue \/ mail = "raised" THEN "Error sending email"
    ELSE IF mail = "sent" THEN "Email sent"
    ELSE "Email failed"

\* A handler that lets an exception of the email block reach its outer
\* except clause.
create_booking_endpoint_io_propagating(table, catalog, data, io) ==
    LET refusal == create_checks(Read(table, io.query), data) IN
    IF refusal # NoResponse
    THEN [resp |-> refusal, table |-> table, log |-> ""]
    ELSE IF ~io.put
    THEN [resp |-> Response("create", 500, "Failed to create booking: ", 0),
          table |-> table, log |-> "Error creating booking"]
    ELSE IF send_email(get_room_by_id(ReadRooms(catalog, io.room), data.room_id), io.mail)
                = "Error sending email"
    THEN [resp |-> Response("create", 500, "", 0),
          table |-> create_booking(table, booking_record(table, data)),
          log |-> ""]
    ELSE [resp |-> Response("create", 201, "Booking created successfully", uuid4(table)),
          table |-> create_booking(table, booking_record(table, data)),
          log |-> send_email(get_room_by_id(ReadRooms(catalog, io.room), data.room_id),
                             io.mail)]

\* A handler that refuses a room the catalog does not have.
create_booking_endpoint_io_known_rooms(table, catalog, data, io) ==
    LET refusal == create_checks(Read(table, io.query), data) IN
    IF refusal # NoResponse
    THEN [resp |-> refusal, table |-> table, log |-> ""]
    ELSE IF get_room_by_id(ReadRooms(catalog, io.room), data.room_id) = NoneValue
    THEN [resp |-> Response("create", 404, "Room not found", 0),
          table |-> table, log |-> ""]
    ELSE IF ~io.put
    THEN [resp |-> Response("create", 500, "Failed to create booking: ", 0),
          table |-> table, log |-> "Error creating booking"]
    ELSE [resp |-> Response("create", 201, "Booking created successfully", uuid4(table)),
          table |-> create_booking(table, booking_record(table, data)),
          log |-> send_email(get_room_by_id(ReadRooms(catalog, io.room), data.room_id),
                             io.mail)]

\* create_booking_endpoint with the outcomes io of its calls: the response,
\* the table it leaves and the line it prints.
create_booking_endpoint_io(table, catalog, data, io) ==
    LET refusal == create_checks(Read(table, io.query), data) IN
    IF refusal # NoResponse
    THEN [resp |-> refusal, table |-> table, log |-> ""]
    ELSE IF ~io.put
    THEN [resp |-> Response("create", 500, "Failed to create booking: ", 0),
          table |-> table, log |-> "Error creating booking"]
    ELSE [resp |-> Response("create", 201, "Booking created successfully", uuid4(table)),
          table |-> create_booking(table, booking_record(table, data)),
          log |-> send_email(get_room_by_id(ReadRooms(catalog, io.room), data.room_id),
                             io.mail)]

\* A cancellation that writes the status before it tests the lead time.
cancel_booking_io_writing_first(table, catalog, t, booking_id, io) ==
    LET booking == get_booking_by_id(Read(table, io.get), booking_id) IN
    IF booking = NoneValue
    THEN [resp |-> Response("cancel", 404, "Booking not found", 0),
          table |-> table, log |-> ""]
    ELSE IF ~io.update
    THEN [resp |-> Response("cancel", 500, "", booking_id),
          table |-> table, log |-> "Error updating booking"]
    ELSE IF TooLate(booking, t)
    THEN [resp |-> Response("cancel", 403,
                            "Cannot cancel booking less than 1 hour before start time",
                            booking_id),
          table |-> update_booking_status(table, booking_id, "cancelled"), log |-> ""]
    ELSE [resp |-> Response("cancel", 200, "Booking cancelled successfully", booking_id),
          table |-> update_booking_status(table, booking_id, "cancelled"),
          log |-> send_email(get_room_by_id(ReadRooms(catalog, io.room),
                                            booking[1].room_id), io.mail)]

\* cancel_booking with the outcomes io of its calls.
cancel_booking_io(table, catalog, t, booking_id, io) ==
    LET booking == get_booking_by_id(Read(table, io.get), booking_id) IN
    IF booking = NoneValue
    THEN [resp |-> Response("cancel", 404, "Booking not found", 0),
          table |-> table, log |-> ""]
    ELSE IF TooLate(booking, t)
    THEN [resp |-> Response("cancel", 403,
                            "Cannot cancel booking less than 1 hour before start time",
                            booking_id),
          table |-> table, log |-> ""]
    ELSE IF ~io.update
    THEN [resp |-> Response("cancel", 500, "", booking_id),
          table |-> table, log |-> "Error updating booking"]
    ELSE [resp |-> Response("cancel", 200, "Booking cancelled successfully", booking_id),
          table |-> update_booking_status(table, booking_id, "cancelled"),
          log |-> send_email(get_room_by_id(ReadRooms(catalog, io.room),
                                            booking[1].room_id), io.mail)]

\* modify_booking with the outcomes io of its calls: it only reads.
modify_booking_io(table, t, booking_id, data, io) ==
    [resp  |-> modify_booking(Read(table, io.get), t, booking_id, data).resp,
     table |-> table]

\* ---------------------------------------------------- the handlers that read

\* What a handler that lists answers: the status code and the items.
ListResponse(op, code, message, items) ==
    [op |-> op, code |-> code, message |-> message, count |-> Cardinality(items),
     items |-> items]

\* get_booking: GET /api/bookings/<booking_id>.
get_booking(table, booking_id, io) ==
    LET booking == get_booking_by_id(Read(table, io.get), booking_id) IN
    IF booking = NoneValue
    THEN ListResponse("get_booking", 404, "Booking not found", {})
    ELSE ListResponse("get_booking", 200, "", {booking[1]})

\* A listing that shows the cancelled bookings whatever show_cancelled is.
get_user_bookings_endpoint_unfiltered(table, user_email, show_cancelled, io) ==
    ListResponse("user_bookings", 200, "",
                 {table[i] : i \in get_user_bookings(Read(table, io.scan), user_email)})

\* get_user_bookings_endpoint: GET /api/bookings/user/<user_email>.
get_user_bookings_endpoint(table, user_email, show_cancelled, io) ==
    LET found == {Read(table, io.scan)[i] :
                     i \in get_user_bookings(Read(table, io.scan), user_email)} IN
    ListResponse("user_bookings", 200, "",
                 IF show_cancelled THEN found
                 ELSE {b \in found : b.status # "cancelled"})

\* get_room_bookings: GET /api/rooms/<room_id>/bookings, date being None when
\* the query has no date.
get_room_bookings(table, room_id, date, show_cancelled, io) ==
    LET found == {Read(table, io.query)[i] :
                     i \in get_bookings_by_room(Read(table, io.query), room_id, date)} IN
    ListResponse("room_bookings", 200, "",
                 IF show_cancelled THEN found
                 ELSE {b \in found : b.status # "cancelled"})

\* A listing that stores the availability it computed in the catalog.
get_rooms_marking(table, catalog, date, start_time, end_time, io) ==
    LET marked ==
        {[room_id |-> r.room_id,
          status  |-> IF check_room_availability(Read(table, io.query), r.room_id,
                                                 date, start_time, end_time)[1]
                      THEN "available" ELSE "unavailable"] :
            r \in get_all_rooms(ReadRooms(catalog, io.room))} IN
    [resp |-> ListResponse("rooms", 200, "", marked),
     catalog |-> IF io.room THEN marked ELSE catalog]

\* get_rooms without capacity, amenities or location: GET /api/rooms, with or
\* without (None) a date and times. is_available is set on the items of the
\* answer, not on the table.
get_rooms(table, catalog, date, start_time, end_time, io) ==
    LET listed == get_all_rooms(ReadRooms(catalog, io.room))
        timed == date # NoneValue /\ start_time # NoneValue /\ end_time # NoneValue IN
    [resp |-> ListResponse("rooms", 200, "",
                 {[room_id |-> r.room_id, status |-> r.status,
                   is_available |->
                       IF timed
                       THEN check_room_availability(Read(table, io.query), r.room_id,
                                                    date, start_time, end_time)[1]
                       ELSE r.status = "available"] : r \in listed}),
     catalog |-> catalog]

\* get_room: GET /api/rooms/<room_id>.
get_room(catalog, room_id, io) ==
    LET room == get_room_by_id(ReadRooms(catalog, io.room), room_id) IN
    IF room = NoneValue
    THEN ListResponse("get_room", 404, "Room not found", {})
    ELSE ListResponse("get_room", 200, "", {room[1]})

\* ------------------------------------------------------------- the inputs

Stamp(day, hhmm) == <<day, SepT, hhmm, 0>>
DateOf(day) == <<day>>
At(day, hhmm) == (day * MinutesPerDay + hhmm) * SecondsPerMinute

RoomIds == {"room-001", "room-002"}
Emails == {"test@example.com"}
Days == {1, 2}
TimesOfDay == {600, 630, 660}
\* "YYYY-MM-DDT25:00:00", which fromisoformat refuses.
BadStamp == <<1, SepT, 1500, 0>>

Dates == {DateOf(d) : d \in Days}
\* 10:00, 10:30 and 11:00 of day 1.
Stamps == {Stamp(1, m) : m \in TimesOfDay}

\* 10:00-10:30, 10:30-11:00, 10:00-11:00 and the empty 10:30-10:30.
Slots == {<<600, 630>>, <<630, 660>>, <<600, 660>>, <<630, 630>>}

\* Requests for room-001 on day 1, one whose date field names day 2, one for
\* room-002 at a time room-001 is asked for too, and one with a timestamp
\* that does not parse.
FullRequests ==
    {[room_id |-> "room-001", user_email |-> e, date |-> DateOf(1),
      start_time |-> Stamp(1, sl[1]), end_time |-> Stamp(1, sl[2])] :
        e \in Emails, sl \in Slots}
    \cup
    [room_id : {"room-001"}, user_email : Emails, date : {DateOf(2)},
     start_time : {Stamp(1, 600)}, end_time : {Stamp(1, 630)}]
    \cup
    [room_id : {"room-002"}, user_email : Emails, date : {DateOf(1)},
     start_time : {Stamp(1, 600)}, end_time : {Stamp(1, 660)}]
    \cup
    [room_id : {"room-001"}, user_email : Emails, date : {DateOf(1)},
     start_time : {BadStamp}, end_time : {Stamp(1, 660)}]

\* Bodies that lack end_time, and user_email and end_time.
PartialRequests ==
    {[room_id |-> "room-001", user_email |-> "test@example.com", date |-> DateOf(1),
      start_time |-> Stamp(1, 600)],
     [room_id |-> "room-001", date |-> DateOf(1), start_time |-> BadStamp]}

Requests == FullRequests \cup PartialRequests

\* The body of a PUT: a new date, start_time and end_time.
Updates ==
    {[date |-> DateOf(1), start_time |-> Stamp(1, 600), end_time |-> Stamp(1, 630)],
     [date |-> DateOf(1), start_time |-> Stamp(1, 630), end_time |-> Stamp(1, 660)]}

\* The queries of GET /api/availability.
Queries ==
    [room_id : RoomIds, date : Dates,
     start_time : {Stamp(1, 600)}, end_time : {Stamp(1, 630)}]
    \cup {[room_id |-> "room-001", date |-> NoneValue,
           start_time |-> Stamp(1, 600), end_time |-> Stamp(1, 630)]}

\* Requests for one room and one date, the date of their timestamps.
ConcRequests ==
    [room_id : {"room-001"}, user_email : Emails, date : {DateOf(1)},
     start_time : Stamps, end_time : Stamps]

\* Requests of 0, 28, 29, 30, 239, 240 and 241 minutes, and one that ends
\* before it starts.
DurationRequests ==
    [room_id : {"room-001"}, user_email : Emails, date : {DateOf(1)},
     start_time : {Stamp(1, 600), Stamp(1, 601)},
     end_time : {Stamp(1, 600), Stamp(1, 629), Stamp(1, 630), Stamp(1, 840), Stamp(1, 841)}]

\* Every call answers and the email is sent.
AllOk == [query |-> TRUE, get |-> TRUE, put |-> TRUE, update |-> TRUE,
          scan |-> TRUE, room |-> TRUE, mail |-> "sent"]

\* All calls answer, or one of them raises ClientError, or the email is not
\* sent.
Outcomes ==
    {AllOk,
     [AllOk EXCEPT !.query = FALSE], [AllOk EXCEPT !.get = FALSE],
     [AllOk EXCEPT !.put = FALSE], [AllOk EXCEPT !.update = FALSE],
     [AllOk EXCEPT !.scan = FALSE], [AllOk EXCEPT !.room = FALSE],
     [AllOk EXCEPT !.mail = "failed"], [AllOk EXCEPT !.mail = "raised"]}

\* The outcomes that differ in a call create_booking_endpoint makes.
CreateOutcomes == {io \in Outcomes : io.get /\ io.update /\ io.scan}

\* The outcomes that differ in a call cancel_booking makes.
CancelOutcomes == {io \in Outcomes : io.query /\ io.put /\ io.scan}

\* The outcomes that differ in a call modify_booking makes.
ModifyOutcomes == {io \in Outcomes : io = AllOk \/ ~io.get}

\* Requests served while calls fail: two that overlap, one for a room the
\* catalog does not have, one of 20 minutes inside the other two, one too
\* long, one that does not parse and one without user_email and end_time
\* whose start_time does not parse.
FaultRequests ==
    {[room_id |-> r, user_email |-> "test@example.com", date |-> DateOf(1),
      start_time |-> Stamp(1, sl[1]), end_time |-> Stamp(1, sl[2])] :
        r \in {"room-001"}, sl \in {<<600, 630>>, <<600, 660>>, <<610, 630>>}}
    \cup
    {[room_id |-> "room-999", user_email |-> "test@example.com", date |-> DateOf(1),
      start_time |-> Stamp(1, 600), end_time |-> Stamp(1, 660)],
     [room_id |-> "room-001", user_email |-> "test@example.com", date |-> DateOf(1),
      start_time |-> Stamp(1, 600), end_time |-> Stamp(1, 841)],
     [room_id |-> "room-001", user_email |-> "test@example.com", date |-> DateOf(1),
      start_time |-> BadStamp, end_time |-> Stamp(1, 660)],
     [room_id |-> "room-001", date |-> DateOf(1), start_time |-> BadStamp]}

\* Requests of two users for two rooms, read back by the listings.
ListedEmails == {"test@example.com", "other@example.com"}

ReadRequests ==
    {[room_id |-> "room-001", user_email |-> "test@example.com", date |-> DateOf(1),
      start_time |-> Stamp(1, 600), end_time |-> Stamp(1, 630)],
     [room_id |-> "room-001", user_email |-> "other@example.com", date |-> DateOf(1),
      start_time |-> Stamp(1, 630), end_time |-> Stamp(1, 660)],
     [room_id |-> "room-002", user_email |-> "test@example.com", date |-> DateOf(1),
      start_time |-> Stamp(1, 600), end_time |-> Stamp(1, 660)]}

\* Identifiers a caller may name: those of stored bookings and one of none.
BookingIds == 1..(MaxBookings + 1)

\* The readings of the clock: 61, 60 and 59 minutes before 10:00 of day 1.
NowPoints == {At(1, 539), At(1, 540), At(1, 541)}

Procs == {1, 2}

\* The Rooms table as seed_rooms fills it: every room is available.
Catalog == {[room_id |-> r, status |-> "available"] : r \in RoomIds}

\* ------------------------------------------------------------- the actions

Init ==
    /\ bookings = <<>>
    /\ rooms = Catalog
    /\ now = At(1, 539)
    /\ resp = NoResponse
    /\ pc = [p \in Procs |-> "idle"]
    /\ held = [p \in Procs |-> <<>>]
    /\ BOOKINGS = <<>>
    /\ SECRET_KEY = "dev-secret-key-change-in-production"
    /\ issued = {}

\* POST /api/bookings, run to completion (the table of the model holds
\* MaxBookings items at most).
CreateBooking(data) ==
    LET out == create_booking_endpoint(bookings, data) IN
    /\ Len(out.table) <= MaxBookings
    /\ bookings' = out.table
    /\ resp' = out.resp
    /\ UNCHANGED <<rooms, now, pc, held, BOOKINGS, SECRET_KEY, issued>>

\* DELETE /api/bookings/<booking_id>.
CancelBooking(booking_id) ==
    LET out == cancel_booking(bookings, now, booking_id) IN
    /\ bookings' = out.table
    /\ resp' = out.resp
    /\ UNCHANGED <<rooms, now, pc, held, BOOKINGS, SECRET_KEY, issued>>

\* PUT /api/bookings/<booking_id>.
ModifyBooking(booking_id, data) ==
    LET out == modify_booking(bookings, now, booking_id, data) IN
    /\ bookings' = out.table
    /\ resp' = out.resp
    /\ UNCHANGED <<rooms, now, pc, held, BOOKINGS, SECRET_KEY, issued>>

\* check_availability: 400 unless all four parameters are given (an absent
\* one and an empty one are alike), else the checker's answer under status 200.
check_availability(table, room_id, date, start_time, end_time) ==
    IF room_id = "" \/ date = NoneValue \/ start_time = NoneValue
       \/ end_time = NoneValue
    THEN Response("availability", 400, "Missing required parameters", 0)
    ELSE Response("availability", 200,
                  check_room_availability(table, room_id, date, start_time, end_time)[2], 0)

\* GET /api/availability.
CheckAvailability(room_id, date, start_time, end_time) ==
    /\ resp' = check_availability(bookings, room_id, date, start_time, end_time)
    /\ UNCHANGED <<bookings, rooms, now, pc, held, BOOKINGS, SECRET_KEY, issued>>

\* POST /api/bookings in a worker p that other workers interleave with: the
\* checks up to the availability check ...
CreateCheck(p, data) ==
    /\ pc[p] = "idle"
    /\ LET r == create_checks(bookings, data) IN
       IF r # NoResponse
       THEN /\ resp' = r
            /\ UNCHANGED <<pc, held>>
       ELSE /\ pc' = [pc EXCEPT ![p] = "write"]
            /\ held' = [held EXCEPT ![p] = <<data>>]
            /\ UNCHANGED resp
    /\ UNCHANGED <<bookings, rooms, now, BOOKINGS, SECRET_KEY, issued>>

\* ... and then the write of the record and the 201.
CreateWrite(p) ==
    /\ pc[p] = "write"
    /\ Len(bookings) < MaxBookings
    /\ bookings' = create_booking(bookings, booking_record(bookings, held[p][1]))
    /\ resp' = Response("create", 201, "Booking created successfully", uuid4(bookings))
    /\ pc' = [pc EXCEPT ![p] = "idle"]
    /\ held' = [held EXCEPT ![p] = <<>>]
    /\ UNCHANGED <<rooms, now, BOOKINGS, SECRET_KEY, issued>>

\* Time passes between requests.
Tick ==
    /\ \E t \in NowPoints : t > now /\ now' = t
    /\ UNCHANGED <<bookings, rooms, resp, pc, held, BOOKINGS, SECRET_KEY, issued>>

\* POST /api/bookings while calls may fail.
CreateBookingIO(data, io) ==
    LET out == create_booking_endpoint_io(bookings, rooms, data, io) IN
    /\ Len(out.table) <= MaxBookings
    /\ bookings' = out.table
    /\ resp' = out.resp
    /\ UNCHANGED <<rooms, now, pc, held, BOOKINGS, SECRET_KEY, issued>>

\* DELETE /api/bookings/<booking_id> while calls may fail.
CancelBookingIO(booking_id, io) ==
    LET out == cancel_booking_io(bookings, rooms, now, booking_id, io) IN
    /\ bookings' = out.table
    /\ resp' = out.resp
    /\ UNCHANGED <<rooms, now, pc, held, BOOKINGS, SECRET_KEY, issued>>

\* PUT /api/bookings/<booking_id> while calls may fail.
ModifyBookingIO(booking_id, data, io) ==
    LET out == modify_booking_io(bookings, now, booking_id, data, io) IN
    /\ bookings' = out.table
    /\ resp' = out.resp
    /\ UNCHANGED <<rooms, now, pc, held, BOOKINGS, SECRET_KEY, issued>>

\* GET /api/bookings/<booking_id>.
GetBooking(booking_id, io) ==
    /\ resp' = get_booking(bookings, booking_id, io)
    /\ UNCHANGED <<bookings, rooms, now, pc, held, BOOKINGS, SECRET_KEY, issued>>

\* GET /api/bookings/user/<user_email>.
GetUserBookings(user_email, show_cancelled, io) ==
    /\ resp' = get_user_bookings_endpoint(bookings, user_email, show_cancelled, io)
    /\ UNCHANGED <<bookings, rooms, now, pc, held, BOOKINGS, SECRET_KEY, issued>>

\* GET /api/rooms/<room_id>/bookings.
GetRoomBookings(room_id, date, show_cancelled, io) ==
    /\ resp' = get_room_bookings(bookings, room_id, date, show_cancelled, io)
    /\ UNCHANGED <<bookings, rooms, now, pc, held, BOOKINGS, SECRET_KEY, issued>>

\* GET /api/rooms.
GetRooms(date, start_time, end_time, io) ==
    LET out == get_rooms(bookings, rooms, date, start_time, end_time, io) IN
    /\ resp' = out.resp
    /\ rooms' = out.catalog
    /\ UNCHANGED <<bookings, now, pc, held, BOOKINGS, SECRET_KEY, issued>>

\* GET /api/rooms/<room_id>.
GetRoom(room_id, io) ==
    /\ resp' = get_room(rooms, room_id, io)
    /\ UNCHANGED <<bookings, rooms, now, pc, held, BOOKINGS, SECRET_KEY, issued>>

\* GET /api/availability while the query may fail.
CheckAvailabilityIO(room_id, date, start_time, end_time, io) ==
    /\ resp' = check_availability(Read(bookings, io.query), room_id, date,
                                  start_time, end_time)
    /\ UNCHANGED <<bookings, rooms, now, pc, held, BOOKINGS, SECRET_KEY, issued>>

Next ==
    \/ \E data \in Requests : CreateBooking(data)
    \/ \E id \in BookingIds : CancelBooking(id)
    \/ \E id \in BookingIds, data \in Updates : ModifyBooking(id, data)
    \/ Tick

\* The handlers, each run to completion before the next starts.
Spec == Init /\ [][Next]_vars

NextConc ==
    \/ \E p \in Procs, data \in ConcRequests : CreateCheck(p, data)
    \/ \E p \in Procs : CreateWrite(p)
    \/ \E id \in BookingIds : CancelBooking(id)

\* Two workers serving POST /api/bookings at once, with no lock between the
\* availability check and the write.
SpecConc == Init /\ [][NextConc]_vars

NextDuration ==
    \/ \E data \in DurationRequests : CreateBooking(data)
    \/ \E id \in BookingIds : CancelBooking(id)
    \/ \E id \in BookingIds, data \in Updates : ModifyBooking(id, data)
    \/ \E q \in Queries : CheckAvailability(q.room_id, q.date, q.start_time, q.end_time)

\* Requests whose durations stand on both sides of the two limits, with
\* cancellations, modifications and the availability queries.
SpecDuration == Init /\ [][NextDuration]_vars

NextFaults ==
    \/ \E data \in FaultRequests, io \in CreateOutcomes : CreateBookingIO(data, io)
    \/ \E id \in BookingIds, io \in CancelOutcomes : CancelBookingIO(id, io)
    \/ \E id \in BookingIds, data \in Updates, io \in ModifyOutcomes :
          ModifyBookingIO(id, data, io)
    \/ Tick

\* The handlers that write, served while DynamoDB or the mailer may fail.
SpecFaults == Init /\ [][NextFaults]_vars

NextReads ==
    \/ \E data \in ReadRequests : CreateBooking(data)
    \/ \E id \in BookingIds : CancelBooking(id)
    \/ \E id \in BookingIds, io \in Outcomes : GetBooking(id, io)
    \/ \E e \in ListedEmails, sc \in BOOLEAN, io \in Outcomes : GetUserBookings(e, sc, io)
    \/ \E r \in RoomIds, d \in {NoneValue, DateOf(1)}, sc \in BOOLEAN, io \in Outcomes :
          GetRoomBookings(r, d, sc, io)
    \/ \E q \in Queries, io \in Outcomes :
          \/ GetRooms(q.date, q.start_time, q.end_time, io)
          \/ CheckAvailabilityIO(q.room_id, q.date, q.start_time, q.end_time, io)
    \/ \E r \in RoomIds \cup {"room-999"}, io \in Outcomes : GetRoom(r, io)

\* The handlers that read, between creations and cancellations.
SpecReads == Init /\ [][NextReads]_vars

\* ------------------------------------------------- the catalog of rooms

\* What the status of a room may read: 'available', or anything else.
RoomStatuses == {"available", "unavailable"}

\* The keeper of the Rooms table writes the status of a room; the
\* application itself only reads the table.
SetRoomStatus(room_id, status) ==
    /\ \E r \in rooms : r.room_id = room_id /\ r.status # status
    /\ rooms' = {IF r.room_id = room_id THEN [r EXCEPT !.status = status] ELSE r :
                    r \in rooms}
    /\ UNCHANGED <<bookings, now, resp, pc, held, BOOKINGS, SECRET_KEY, issued>>

NextCatalog ==
    \/ \E r \in RoomIds, st \in RoomStatuses : SetRoomStatus(r, st)
    \/ \E data \in ReadRequests : CreateBooking(data)
    \/ \E id \in BookingIds : CancelBooking(id)
    \/ \E q \in Queries, io \in Outcomes :
          GetRooms(q.date, q.start_time, q.end_time, io)

\* Listings of the rooms while the catalog's statuses change.
SpecCatalog == Init /\ [][NextCatalog]_vars

\* --------------------------------------------- timestamps in other forms

\* The code of ' ', the other separator datetime.fromisoformat takes.
SepSpace == 32

\* 10:00, 10:30 and 11:00 of day 1 as 'YYYY-MM-DDTHH:MM:SS',
\* 'YYYY-MM-DD HH:MM:SS' and 'YYYY-MM-DDTHH:MM'.
StampIn(form, day, hhmm) ==
    CASE form = "T" -> <<day, SepT, hhmm, 0>>
      [] form = "space" -> <<day, SepSpace, hhmm, 0>>
      [] form = "minutes" -> <<day, SepT, hhmm>>

Forms == {"T", "space", "minutes"}

\* Requests for room-001 on day 1 whose two timestamps are written in one of
\* the forms.
FormatRequests ==
    {[room_id |-> "room-001", user_email |-> "test@example.com", date |-> DateOf(1),
      start_time |-> StampIn(f, 1, sl[1]), end_time |-> StampIn(f, 1, sl[2])] :
        f \in Forms, sl \in {<<600, 630>>, <<630, 660>>, <<600, 660>>}}

NextFormats ==
    \/ \E data \in FormatRequests : CreateBooking(data)
    \/ \E id \in BookingIds : CancelBooking(id)

\* Creations and cancellations whose timestamps come in every form the
\* handler's validation takes.
SpecFormats == Init /\ [][NextFormats]_vars

\* ------------------------------------- the in-memory variant (auth_routes)

\* create_booking of auth_routes on the list BOOKINGS: the response and the
\* list it leaves. The record is appended once the five fields are present
\* (its user_id and created_at are left out, as in booking_record).
auth_create_booking(store, data) ==
    IF MissingFields(data) # {}
    THEN [resp |-> [Response("create", 400, "Missing required field: ", 0)
                       EXCEPT !.field = FirstMissing(data)],
          store |-> store]
    ELSE [resp |-> Response("create", 201, "Booking created successfully",
                            uuid4(store)),
          store |-> Append(store, booking_record(store, data))]

\* One request body sent to both variants, each on its own store.
CreateBookingBoth(data) ==
    LET out == create_booking_endpoint(bookings, data)
        demo == auth_create_booking(BOOKINGS, data) IN
    /\ Len(out.table) <= MaxBookings
    /\ Len(demo.store) <= MaxBookings
    /\ bookings' = out.table
    /\ BOOKINGS' = demo.store
    /\ resp' = [op |-> "create_both", app |-> out.resp, auth |-> demo.resp]
    /\ UNCHANGED <<rooms, now, pc, held, SECRET_KEY, issued>>

NextBoth == \E data \in Requests : CreateBookingBoth(data)

\* The two variants of POST /api/bookings served side by side.
SpecBoth == Init /\ [][NextBoth]_vars

\* ------------------------------------------- authentication (auth_routes)

\* Seconds a session token lives, and days a remember-me token lives.
SESSION_TIMEOUT == 7200
RememberDays == 30
RememberSeconds == RememberDays * MinutesPerDay * SecondsPerMinute

\* Tokens the model lets clients hold.
MaxTokens == 2

\* hash_password: SHA-256 of the password, taken as collision free.
hash_password(password) == <<"sha256", password>>

\* The demo accounts of get_user_by_email.
demo_users ==
    [e \in {"demo@company.com", "admin@company.com"} |->
        IF e = "demo@company.com"
        THEN [user_id |-> "user-demo-001", email |-> "demo@company.com",
              name |-> "Demo User", password_hash |-> hash_password("demo123"),
              role |-> "employee", department |-> "Engineering"]
        ELSE [user_id |-> "user-admin-001", email |-> "admin@company.com",
              name |-> "Admin User", password_hash |-> hash_password("admin123"),
              role |-> "administrator", department |-> "IT"]]

\* str.lower() and str.strip() on the addresses the model sends.
lower(email) ==
    CASE email = "Demo@Company.com" -> "demo@company.com"
      [] email = " Demo@Company.com " -> " demo@company.com "
      [] OTHER -> email

strip(email) ==
    CASE email = " demo@company.com " -> "demo@company.com"
      [] email = " Demo@Company.com " -> "Demo@Company.com"
      [] email = " " -> ""
      [] OTHER -> email

\* get_user_by_email: <<user>>, or None for an address without account.
get_user_by_email(email) ==
    IF lower(email) \in DOMAIN demo_users THEN <<demo_users[lower(email)]>> ELSE NoneValue

\* generate_token at time t: the payload, and the key its HS256 signature
\* was made with.
generate_token(user_data, remember_me, t, key) ==
    [user_id |-> user_data.user_id,
     email   |-> user_data.email,
     role    |-> user_data.role,
     exp     |-> IF remember_me THEN t + RememberSeconds ELSE t + SESSION_TIMEOUT,
     iat     |-> t,
     key     |-> key]

\* verify_token never looking at exp.
verify_token_ignoring_expiry(token, key, t, at_exp) ==
    IF token.key # key
    THEN NoneValue
    ELSE <<[user_id |-> token.user_id, email |-> token.email, role |-> token.role,
            exp |-> token.exp, iat |-> token.iat]>>

\* verify_token at time t under the server key: <<payload>>, or None for a
\* bad signature (InvalidTokenError) or a passed exp (ExpiredSignatureError).
\* Whether the second t = exp still verifies depends on the jwt library's
\* comparison; at_exp says if it does.
verify_token(token, key, t, at_exp) ==
    IF token.key # key
    THEN NoneValue
    ELSE IF token.exp < t \/ (token.exp = t /\ ~at_exp)
    THEN NoneValue
    ELSE <<[user_id |-> token.user_id, email |-> token.email, role |-> token.role,
            exp |-> token.exp, iat |-> token.iat]>>

\* An answer of an authentication route: the user and the token are <<x>>
\* when the body has them.
AuthResponse(op, code, message, user, token) ==
    [op |-> op, code |-> code, message |-> message, user |-> user, token |-> token]

\* The 200 answer of login: the token, the user without the password hash,
\* and the session timeout.
LoginSuccess(user, token) ==
    [op |-> "login", code |-> 200, message |-> "Login successful",
     user |-> <<[user_id |-> user.user_id, email |-> user.email, name |-> user.name,
                 role |-> user.role, department |-> user.department]>>,
     token |-> <<token>>,
     session_timeout |-> SESSION_TIMEOUT]

\* login revealing that the address has no account.
login_naming_unknown(data, t, key) ==
    LET email == strip(lower(data.email))
        user == get_user_by_email(email) IN
    IF email = "" \/ data.password = ""
    THEN [resp |-> AuthResponse("login", 400, "Email and password are required",
                                NoneValue, NoneValue), key |-> key]
    ELSE IF user = NoneValue
    THEN [resp |-> AuthResponse("login", 404, "User not found",
                                NoneValue, NoneValue), key |-> key]
    ELSE IF hash_password(data.password) # user[1].password_hash
    THEN [resp |-> AuthResponse("login", 401, "Invalid email or password",
                                NoneValue, NoneValue), key |-> key]
    ELSE [resp |-> LoginSuccess(user[1], generate_token(user[1], data.remember_me, t, key)),
          key |-> key]

\* POST /api/auth/login at time t: the answer and the server key it leaves.
\* An absent email or password reads as ''.
login(data, t, key) ==
    LET email == strip(lower(data.email))
        user == get_user_by_email(email) IN
    IF email = "" \/ data.password = ""
    THEN [resp |-> AuthResponse("login", 400, "Email and password are required",
                                NoneValue, NoneValue), key |-> key]
    ELSE IF user = NoneValue
    THEN [resp |-> AuthResponse("login", 401, "Invalid email or password",
                                NoneValue, NoneValue), key |-> key]
    ELSE IF hash_password(data.password) # user[1].password_hash
    THEN [resp |-> AuthResponse("login", 401, "Invalid email or password",
                                NoneValue, NoneValue), key |-> key]
    ELSE [resp |-> LoginSuccess(user[1], generate_token(user[1], data.remember_me, t, key)),
          key |-> key]

\* A logout that ends every session by changing the signing key.
logout_rotating_key(key) ==
    [resp |-> AuthResponse("logout", 200, "Logout successful", NoneValue, NoneValue),
     key |-> "rotated-key"]

\* POST /api/auth/logout: the answer and the server key it leaves.
logout(key) ==
    [resp |-> AuthResponse("logout", 200, "Logout successful", NoneValue, NoneValue),
     key |-> key]

\* GET /api/auth/verify with the Authorization header <<token>> or none.
verify_session(header, t, key, at_exp) ==
    IF header = NoneValue
    THEN AuthResponse("verify", 401, "No token provided", NoneValue, NoneValue)
    ELSE LET user_data == verify_token(header[1], key, t, at_exp) IN
         IF user_data = NoneValue
         THEN AuthResponse("verify", 401, "Invalid or expired token", NoneValue, NoneValue)
         ELSE AuthResponse("verify", 200, "Token is valid",
                  <<[user_id |-> user_data[1].user_id, email |-> user_data[1].email,
                     role |-> user_data[1].role]>>, NoneValue)

\* POST /api/auth/reset-password: the answer and the line it prints.
reset_password(data) ==
    LET email == strip(lower(data.email)) IN
    IF email = ""
    THEN [resp |-> AuthResponse("reset", 400, "Email is required", NoneValue, NoneValue),
          log |-> ""]
    ELSE [resp |-> AuthResponse("reset", 200,
                 "If an account exists with that email, a reset link has been sent",
                 NoneValue, NoneValue),
          log |-> IF get_user_by_email(email) # NoneValue
                  THEN "Password reset requested" ELSE ""]

\* POST /api/auth/refresh: the answer, with a new session token when the
\* presented one verifies, and the server key it leaves.
refresh_token(header, t, key, at_exp) ==
    IF header = NoneValue
    THEN [resp |-> AuthResponse("refresh", 401, "No token provided", NoneValue, NoneValue),
          key |-> key]
    ELSE LET user_data == verify_token(header[1], key, t, at_exp) IN
         IF user_data = NoneValue
         THEN [resp |-> AuthResponse("refresh", 401, "Invalid or expired token",
                                     NoneValue, NoneValue), key |-> key]
         ELSE [resp |-> AuthResponse("refresh", 200, "Token refreshed", NoneValue,
                           <<generate_token(user_data[1], FALSE, t, key)>>),
               key |-> key]

\* Login bodies: both accounts, a wrong password, an address without
\* account, an address to normalise, and absent fields.
LoginRequests ==
    {[email |-> e, password |-> "demo123", remember_me |-> r] :
        e \in {"demo@company.com", " Demo@Company.com ", "nobody@company.com", ""},
        r \in BOOLEAN}
    \cup {[email |-> "admin@company.com", password |-> p, remember_me |-> FALSE] :
            p \in {"admin123", "demo123", ""}}

\* Reset bodies.
ResetRequests == {[email |-> e] : e \in {"demo@company.com", "nobody@company.com", ""}}

\* A token with the payload of tok, signed with a key that is not the server's.
Forged(tok) == [tok EXCEPT !.key = "attacker-key"]

\* Authorization headers a client may send: none, a token it holds, or a
\* forgery of one.
Headers == {NoneValue} \cup {<<tok>> : tok \in issued} \cup {<<Forged(tok)>> : tok \in issued}

\* The readings of the clock around the two lifetimes of a token issued at
\* the first reading.
AuthTimes ==
    {At(1, 539) + d : d \in {0, SESSION_TIMEOUT - 1, SESSION_TIMEOUT, SESSION_TIMEOUT + 1,
                             RememberSeconds, RememberSeconds + 1}}

Login(data) ==
    LET out == login(data, now, SECRET_KEY) IN
    /\ Cardinality(issued \cup {out.resp.token[i] : i \in DOMAIN out.resp.token}) <= MaxTokens
    /\ issued' = issued \cup {out.resp.token[i] : i \in DOMAIN out.resp.token}
    /\ resp' = out.resp
    /\ SECRET_KEY' = out.key
    /\ UNCHANGED <<bookings, rooms, now, pc, held, BOOKINGS>>

Logout ==
    LET out == logout(SECRET_KEY) IN
    /\ resp' = out.resp
    /\ SECRET_KEY' = out.key
    /\ UNCHANGED <<bookings, rooms, now, pc, held, BOOKINGS, issued>>

VerifySession(header, at_exp) ==
    /\ resp' = verify_session(header, now, SECRET_KEY, at_exp)
    /\ UNCHANGED <<bookings, rooms, now, pc, held, BOOKINGS, SECRET_KEY, issued>>

ResetPassword(data) ==
    /\ resp' = reset_password(data).resp
    /\ UNCHANGED <<bookings, rooms, now, pc, held, BOOKINGS, SECRET_KEY, issued>>

RefreshToken(header, at_exp) ==
    LET out == refresh_token(header, now, SECRET_KEY, at_exp) IN
    /\ Cardinality(issued \cup {out.resp.token[i] : i \in DOMAIN out.resp.token}) <= MaxTokens
    /\ issued' = issued \cup {out.resp.token[i] : i \in DOMAIN out.resp.token}
    /\ resp' = out.resp
    /\ SECRET_KEY' = out.key
    /\ UNCHANGED <<bookings, rooms, now, pc, held, BOOKINGS>>

\* Time passes between authentication requests.
AuthTick ==
    /\ \E t \in AuthTimes : t > now /\ now' = t
    /\ UNCHANGED <<bookings, rooms, resp, pc, held, BOOKINGS, SECRET_KEY, issued>>

NextAuth ==
    \/ \E data \in LoginRequests : Login(data)
    \/ Logout
    \/ \E h \in Headers, at_exp \in BOOLEAN : VerifySession(h, at_exp)
    \/ \E data \in ResetRequests : ResetPassword(data)
    \/ \E h \in Headers, at_exp \in BOOLEAN : RefreshToken(h, at_exp)
    \/ AuthTick

\* The authentication routes, while the clock runs past the tokens' expiry.
SpecAuth == Init /\ [][NextAuth]_vars

\* -------------------------------------------------------------- the claims

Active(i) == bookings[i].status # "cancelled"

\* The half-open intervals of two bookings share an instant.
InstantsOverlap(a, b) ==
    /\ fromisoformat(a.start_time) < fromisoformat(b.end_time)
    /\ fromisoformat(b.start_time) < fromisoformat(a.end_time)

\* A stored booking i that a candidate for (room_id, date, [s, e)) is in
\* conflict with: not cancelled, same room, same date, s < e2 and e > s2.
InConflict(i, room_id, date, s, e) ==
    /\ Active(i)
    /\ bookings[i].room_id = room_id
    /\ bookings[i].date = date
    /\ LexLess(s, bookings[i].end_time)
    /\ LexLess(bookings[i].start_time, e)

\* C1: when every call runs to completion before the next starts, no two
\* non-cancelled bookings of the same room have overlapping intervals
\* [start, end).
C1_NoDoubleBooking ==
    \A i, j \in DOMAIN bookings :
        (i # j /\ Active(i) /\ Active(j) /\ bookings[i].room_id = bookings[j].room_id)
            => ~InstantsOverlap(bookings[i], bookings[j])

\* C2: the availability check answers (False, "Room is already booked for
\* this time slot") exactly when some non-cancelled booking of the room with
\* the same date has s < e2 and e > s2, and (True, "Room is available")
\* otherwise.
C2_AvailabilityIffOverlap ==
    \A room_id \in RoomIds, date \in Dates, s \in Stamps, e \in Stamps :
        check_room_availability(bookings, room_id, date, s, e)
            = IF \E i \in DOMAIN bookings : InConflict(i, room_id, date, s, e)
              THEN <<FALSE, "Room is already booked for this time slot">>
              ELSE <<TRUE, "Room is available">>

\* C3: of two concurrent requests for the same room and date whose intervals
\* overlap at most one is persisted, under every interleaving of their
\* availability checks and writes.
C3_AtMostOneOfOverlappingPersisted ==
    \A i, j \in DOMAIN bookings :
        (i # j /\ Active(i) /\ Active(j))
            => ~InConflict(i, bookings[j].room_id, bookings[j].date,
                           bookings[j].start_time, bookings[j].end_time)

\* C4: a request with all fields and well-formed timestamps is refused as too
\* short when its duration is under 30 minutes (zero and negative durations
\* too), refused as too long when it is over 240 minutes, and passes the
\* duration check for every duration from 30 to 240 minutes.
C4_DurationBounds ==
    \A data \in DurationRequests :
        LET d == fromisoformat(data.end_time) - fromisoformat(data.start_time)
            r == create_booking_endpoint(bookings, data).resp IN
        /\ d < 30 * 60 =>
               /\ r.code = 400
               /\ r.message = "Minimum booking duration is 30 minutes"
        /\ d > 240 * 60 =>
               /\ r.code = 400
               /\ r.message = "Maximum booking duration is 4 hours"
        /\ (30 * 60 <= d /\ d <= 240 * 60) =>
               /\ r.code \in {201, 409}
               /\ r.message \notin {"Minimum booking duration is 30 minutes",
                                    "Maximum booking duration is 4 hours"}

\* A booking of exactly 240 minutes has just been accepted.
C4_Witness ==
    /\ resp.op = "create"
    /\ resp.code = 201
    /\ fromisoformat(bookings[resp.booking_id].end_time)
           - fromisoformat(bookings[resp.booking_id].start_time) = 240 * 60

\* C5: a cancellation or modification of a stored booking is refused with 403
\* exactly when the booking's stored start is less than 60 minutes after the
\* current time, whatever new times the request proposes.
C5_LeadTime ==
    \A id \in DOMAIN bookings :
        LET late == fromisoformat(bookings[id].start_time) - now < 60 * 60 IN
        /\ cancel_booking(bookings, now, id).resp.code = IF late THEN 403 ELSE 200
        /\ \A data \in Updates :
              modify_booking(bookings, now, id, data).resp.code = IF late THEN 403 ELSE 200

\* A booking that starts in 59 minutes has just been refused cancellation.
C5_Witness ==
    /\ resp.op = "cancel"
    /\ resp.code = 403
    /\ fromisoformat(bookings[resp.booking_id].start_time) - now = 59 * 60

\* C6: a request for the room, date and exact interval of a cancelled booking
\* succeeds when no non-cancelled booking of that room is in conflict with it.
C6_CancelledSlotRebookable ==
    \A b \in DOMAIN bookings :
        LET data == [room_id    |-> bookings[b].room_id,
                     user_email |-> bookings[b].user_email,
                     date       |-> bookings[b].date,
                     start_time |-> bookings[b].start_time,
                     end_time   |-> bookings[b].end_time]
            out == create_booking_endpoint(bookings, data) IN
        (/\ bookings[b].status = "cancelled"
         /\ ~\E i \in DOMAIN bookings :
               InConflict(i, data.room_id, data.date, data.start_time, data.end_time))
        => /\ out.resp.code = 201
           /\ Len(out.table) = Len(bookings) + 1
           /\ out.table[Len(out.table)].status # "cancelled"
           /\ out.table[Len(out.table)].room_id = data.room_id
           /\ out.table[Len(out.table)].date = data.date
           /\ out.table[Len(out.table)].start_time = data.start_time
           /\ out.table[Len(out.table)].end_time = data.end_time

\* The booking just created takes the slot of a cancelled one.
C6_Witness ==
    /\ resp.op = "create"
    /\ resp.code = 201
    /\ \E b \in DOMAIN bookings :
          /\ b # resp.booking_id
          /\ bookings[b].status = "cancelled"
          /\ bookings[b].room_id = bookings[resp.booking_id].room_id
          /\ bookings[b].date = bookings[resp.booking_id].date
          /\ bookings[b].start_time = bookings[resp.booking_id].start_time
          /\ bookings[b].end_time = bookings[resp.booking_id].end_time

\* C7: a modification, outside the lead-time window, of an active booking to
\* a slot in conflict with another non-cancelled booking of the same room is
\* refused with Conflict (409) and leaves the stored bookings as they were.
C7_ModifyConflictRejected ==
    [][\A id \in DOMAIN bookings, data \in Updates :
          (/\ ModifyBooking(id, data)
           /\ Active(id)
           /\ fromisoformat(bookings[id].start_time) - now >= 60 * 60
           /\ \E j \in DOMAIN bookings :
                 /\ j # id
                 /\ InConflict(j, bookings[id].room_id, data.date,
                               data.start_time, data.end_time))
          => /\ resp'.code = 409
             /\ bookings' = bookings]_vars

\* C8: a successful modification of booking b leaves b stored with status
\* cancelled and its times untouched, and adds a new non-cancelled record
\* with a fresh identifier and the new date, start and end.
C8_ModifyReplacesRecord ==
    [][\A id \in DOMAIN bookings, data \in Updates :
          (ModifyBooking(id, data) /\ resp'.code = 200)
          => /\ bookings'[id] = [bookings[id] EXCEPT !.status = "cancelled"]
             /\ Len(bookings') = Len(bookings) + 1
             /\ bookings'[Len(bookings')].booking_id \notin DOMAIN bookings
             /\ bookings'[Len(bookings')].status # "cancelled"
             /\ bookings'[Len(bookings')].date = data.date
             /\ bookings'[Len(bookings')].start_time = data.start_time
             /\ bookings'[Len(bookings')].end_time = data.end_time]_vars

\* C9: no call removes a stored record or changes any attribute of it other
\* than its status, and after a successful cancellation the booking is still
\* found under its identifier, cancelled and otherwise as it was.
C9_CancelIsStatusFlip ==
    [][/\ \A i \in DOMAIN bookings :
             /\ get_booking_by_id(bookings', i) # NoneValue
             /\ [get_booking_by_id(bookings', i)[1] EXCEPT !.status = "any"]
                    = [bookings[i] EXCEPT !.status = "any"]
       /\ \A id \in BookingIds :
             (CancelBooking(id) /\ resp'.code = 200)
             => get_booking_by_id(bookings', id)
                    = <<[bookings[id] EXCEPT !.status = "cancelled"]>>]_vars

\* A confirmed booking has just been cancelled and is still stored.
C9_Witness ==
    /\ resp.op = "cancel"
    /\ resp.code = 200
    /\ resp.booking_id \in DOMAIN bookings
    /\ bookings[resp.booking_id].status = "cancelled"

\* C10: a booking whose status is cancelled keeps that status through every
\* call.
C10_CancelledIsTerminal ==
    [][\A i \in DOMAIN bookings :
          bookings[i].status = "cancelled"
              => (i \in DOMAIN bookings' /\ bookings'[i].status = "cancelled")]_vars

\* A modification has just been accepted on a cancelled booking, which is
\* still cancelled.
C10_Witness ==
    /\ resp.op = "modify"
    /\ resp.code = 200
    /\ bookings[resp.booking_id].status = "cancelled"

\* C11: whenever a creation, modification or cancellation answers with an
\* error (missing field, malformed timestamp, too short, too long, conflict,
\* not found, too late or a failed table call), the table it leaves is the
\* table it found.
C11_FailureLeavesStateUnchanged ==
    /\ \A data \in FaultRequests, io \in CreateOutcomes :
          LET out == create_booking_endpoint_io(bookings, rooms, data, io) IN
          out.resp.code >= 400 => out.table = bookings
    /\ \A id \in BookingIds, io \in CancelOutcomes :
          LET out == cancel_booking_io(bookings, rooms, now, id, io) IN
          out.resp.code >= 400 => out.table = bookings
    /\ \A id \in BookingIds, data \in Updates, io \in ModifyOutcomes :
          LET out == modify_booking_io(bookings, now, id, data, io) IN
          out.resp.code >= 400 => out.table = bookings

\* A cancellation has just failed in update_item and the booking is stored as
\* it was.
C11_Witness ==
    /\ resp.op = "cancel"
    /\ resp.code = 500
    /\ bookings[resp.booking_id].status = "confirmed"

\* C12: when the query of the room's bookings fails, the availability check
\* answers False with an error and never (True, "Room is available"), and a
\* creation whose availability check ran on the failed query persists
\* nothing.
C12_AvailabilityFailsClosed ==
    [][\A data \in FaultRequests, io \in CreateOutcomes :
          (CreateBookingIO(data, io) /\ ~io.query /\ MissingFields(data) = {})
          => /\ ~check_room_availability(Read(bookings, io.query), data.room_id,
                                         data.date, data.start_time, data.end_time)[1]
             /\ resp'.code # 201
             /\ bookings' = bookings]_vars

\* C13: when a table call fails during get_booking, the listing of a user's
\* or a room's bookings, the listing of the rooms, a creation or a
\* cancellation, the caller is answered with a failure (5xx): not with a
\* success, an empty listing or Not Found.
C13_StoreFailureSurfaced ==
    [][/\ \A id \in BookingIds, io \in Outcomes :
             (GetBooking(id, io) /\ ~io.get) => resp'.code >= 500
       /\ \A e \in ListedEmails, sc \in BOOLEAN, io \in Outcomes :
             (GetUserBookings(e, sc, io) /\ ~io.scan) => resp'.code >= 500
       /\ \A r \in RoomIds, d \in {NoneValue, DateOf(1)}, sc \in BOOLEAN, io \in Outcomes :
             (GetRoomBookings(r, d, sc, io) /\ ~io.query) => resp'.code >= 500
       /\ \A q \in Queries, io \in Outcomes :
             (GetRooms(q.date, q.start_time, q.end_time, io) /\ ~io.room)
             => resp'.code >= 500
       /\ \A data \in ReadRequests, io \in CreateOutcomes :
             (~io.query \/ ~io.put)
             => create_booking_endpoint_io(bookings, rooms, data, io).resp.code >= 500
       /\ \A id \in BookingIds, io \in CancelOutcomes :
             (~io.get \/ ~io.update)
             => cancel_booking_io(bookings, rooms, now, id, io).resp.code >= 500]_vars

\* C14: the answer of a creation or cancellation and the table it leaves are
\* what they are when the room lookup answers and the email is sent, also
\* when the lookup gives nothing, the sender reports a failure or the email
\* block raises.
C14_NotificationsBestEffort ==
    /\ \A data \in FaultRequests, io \in CreateOutcomes :
          LET out  == create_booking_endpoint_io(bookings, rooms, data, io)
              sent == create_booking_endpoint_io(bookings, rooms, data,
                          [io EXCEPT !.room = TRUE, !.mail = "sent"]) IN
          out.resp = sent.resp /\ out.table = sent.table
    /\ \A id \in BookingIds, io \in CancelOutcomes :
          LET out  == cancel_booking_io(bookings, rooms, now, id, io)
              sent == cancel_booking_io(bookings, rooms, now, id,
                          [io EXCEPT !.room = TRUE, !.mail = "sent"]) IN
          out.resp = sent.resp /\ out.table = sent.table

\* A booking of a room the catalog does not have, whose email block raised
\* on the missing room, has just been created with 201.
C14_Witness ==
    /\ resp.op = "create"
    /\ resp.code = 201
    /\ bookings[resp.booking_id].room_id = "room-999"
    /\ get_room_by_id(rooms, "room-999") = NoneValue

\* The first field of room_id, user_email, date, start_time, end_time that a
\* request body lacks ("" when it has them all).
FirstAbsent(data) ==
    IF "room_id" \notin DOMAIN data THEN "room_id"
    ELSE IF "user_email" \notin DOMAIN data THEN "user_email"
    ELSE IF "date" \notin DOMAIN data THEN "date"
    ELSE IF "start_time" \notin DOMAIN data THEN "start_time"
    ELSE IF "end_time" \notin DOMAIN data THEN "end_time"
    ELSE ""

\* C15: a creation reports the first failure in the order missing field,
\* malformed timestamp, too short or too long, conflict; when one of the
\* first three fails the answer is the same for every content of the table,
\* and the same when the table cannot be read.
C15_FirstFailureWins ==
    \A data \in FaultRequests, io \in {AllOk, [AllOk EXCEPT !.query = FALSE]} :
        LET r == create_booking_endpoint_io(bookings, rooms, data, io).resp
            early == r = create_booking_endpoint_io(<<>>, rooms, data, AllOk).resp IN
        IF FirstAbsent(data) # ""
        THEN /\ r.code = 400
             /\ r.message = "Missing required field: "
             /\ r.field = FirstAbsent(data)
             /\ early
        ELSE IF fromisoformat(data.start_time) < 0 \/ fromisoformat(data.end_time) < 0
        THEN r.code = 400 /\ r.message = "Invalid datetime format" /\ early
        ELSE IF fromisoformat(data.end_time) - fromisoformat(data.start_time) < 30 * 60
        THEN r.code = 400 /\ r.message = "Minimum booking duration is 30 minutes" /\ early
        ELSE IF fromisoformat(data.end_time) - fromisoformat(data.start_time) > 240 * 60
        THEN r.code = 400 /\ r.message = "Maximum booking duration is 4 hours" /\ early
        ELSE r.code \in {201, 409, 500}

\* A request of 20 minutes inside a stored, non-cancelled booking of the room
\* has just been refused as too short.
C15_Witness ==
    /\ resp.op = "create"
    /\ resp.code = 400
    /\ resp.message = "Minimum booking duration is 30 minutes"
    /\ \E i \in DOMAIN bookings :
          InConflict(i, "room-001", DateOf(1), Stamp(1, 610), Stamp(1, 630))

\* C16: a successful creation stores its record with status active, and the
\* status of every stored booking is active or cancelled.
C16_StatusActiveOrCancelled ==
    /\ \A i \in DOMAIN bookings : bookings[i].status \in {"active", "cancelled"}
    /\ (resp.op = "create" /\ resp.code = 201)
           => bookings[resp.booking_id].status = "active"

\* C17: a successful creation stores its record under an identifier that no
\* stored booking carries, and leaves every stored record as it was, also
\* when the request repeats the room, user, date and times of a stored
\* booking.
C17_FreshIdentifier ==
    [][(resp'.op = "create" /\ bookings' # bookings)
       => /\ Len(bookings') = Len(bookings) + 1
          /\ \A i \in DOMAIN bookings :
                /\ bookings'[i] = bookings[i]
                /\ bookings[i].booking_id # bookings'[Len(bookings')].booking_id
          /\ resp'.code = 201
          /\ resp'.booking_id = bookings'[Len(bookings')].booking_id]_vars

\* The booking just created repeats every field of a stored one but the
\* identifier, and both are stored.
C17_Witness ==
    /\ resp.op = "create"
    /\ resp.code = 201
    /\ \E i \in DOMAIN bookings :
          /\ bookings[i].booking_id # resp.booking_id
          /\ [bookings[i] EXCEPT !.booking_id = resp.booking_id, !.status = "confirmed"]
                 = bookings[resp.booking_id]

\* C18: every stored booking starts before it ends and lasts at least 30 and
\* at most 240 minutes, after any creations, modifications and cancellations.
C18_StoredDurationBounds ==
    \A i \in DOMAIN bookings :
        LET start == fromisoformat(bookings[i].start_time)
            end   == fromisoformat(bookings[i].end_time) IN
        /\ start >= 0
        /\ start < end
        /\ 30 * 60 <= end - start
        /\ end - start <= 240 * 60

\* A booking of exactly 30 minutes and one of exactly 240 minutes are stored,
\* and a modification has just been accepted.
C18_Witness ==
    /\ resp.op = "modify"
    /\ resp.code = 200
    /\ \E i, j \in DOMAIN bookings :
          /\ fromisoformat(bookings[i].end_time)
                 - fromisoformat(bookings[i].start_time) = 30 * 60
          /\ fromisoformat(bookings[j].end_time)
                 - fromisoformat(bookings[j].start_time) = 240 * 60

ReadOps == {"get_booking", "user_bookings", "room_bookings", "rooms", "get_room",
            "availability"}

\* C20: get_booking, the availability check, the listings of a user's and a
\* room's bookings, the listing of the rooms and get_room leave the Bookings
\* and the Rooms table as they were, so that get_booking answers the same
\* before and after any of them.
C20_ReadsArePure ==
    [][resp'.op \in ReadOps
       => /\ bookings' = bookings
          /\ rooms' = rooms
          /\ \A id \in BookingIds :
                get_booking(bookings', id, AllOk) = get_booking(bookings, id, AllOk)]_vars

\* A stored booking has just been read with get_booking.
C20_Witness ==
    /\ resp.op = "get_booking"
    /\ resp.code = 200
    /\ \E i \in DOMAIN bookings : resp.items = {bookings[i]}
    /\ rooms = Catalog

\* The request of FaultRequests for a room the catalog does not have.
UnknownRoomRequest ==
    [room_id |-> "room-999", user_email |-> "test@example.com", date |-> DateOf(1),
     start_time |-> Stamp(1, 600), end_time |-> Stamp(1, 660)]

\* C21: for a room that is not in the catalog and has no booking stored, the
\* availability check answers (True, "Room is available"), and a creation
\* with valid fields and duration succeeds and stores a booking of that room.
C21_UnknownRoomIsFree ==
    (/\ get_room_by_id(rooms, "room-999") = NoneValue
     /\ \A i \in DOMAIN bookings : bookings[i].room_id # "room-999")
    => /\ \A s \in Stamps, e \in Stamps :
             check_room_availability(bookings, "room-999", DateOf(1), s, e)
                 = <<TRUE, "Room is available">>
       /\ LET out == create_booking_endpoint_io(bookings, rooms, UnknownRoomRequest,
                                                AllOk) IN
          /\ out.resp.code = 201
          /\ Len(out.table) = Len(bookings) + 1
          /\ out.table[Len(out.table)].room_id = "room-999"

\* The first booking of a room the catalog does not have has just been
\* created, next to a booking of a room it has.
C21_Witness ==
    /\ resp.op = "create"
    /\ resp.code = 201
    /\ UnknownRoomRequest \in FaultRequests
    /\ bookings[resp.booking_id].room_id = "room-999"
    /\ \A r \in rooms : r.room_id # "room-999"
    /\ \A i \in DOMAIN bookings : i # resp.booking_id => bookings[i].room_id = "room-001"
    /\ Len(bookings) > 1

\* C22: the body of every 201 answer of a creation carries the identifier of
\* the new booking as a top-level booking_id field, equal to the booking_id
\* of the stored record.
C22_CreatedBodyCarriesBookingId ==
    (resp.op = "create" /\ resp.code = 201)
    => LET body == created_body(bookings[resp.booking_id]) IN
       /\ "booking_id" \in DOMAIN body
       /\ body.booking_id = body.booking.booking_id

\* The user, email and role a token verifies to.
Identity(user) == [user_id |-> user.user_id, email |-> user.email, role |-> user.role]

\* C23: a token issued by login for a user expires SESSION_TIMEOUT seconds
\* after its issue, or RememberSeconds after it when remember_me is set; it
\* verifies to that user's user_id, email and role at every time strictly
\* before its expiry, is invalid at every time after it, and a token signed
\* with another key is invalid at any time.
C23_TokenRoundTrip ==
    /\ \A data \in LoginRequests, at_exp \in BOOLEAN :
          LET out == login(data, now, SECRET_KEY) IN
          out.resp.code = 200 =>
             LET tok == out.resp.token[1] IN
             /\ tok.exp = now + (IF data.remember_me THEN RememberSeconds
                                 ELSE SESSION_TIMEOUT)
             /\ \A t \in AuthTimes :
                   /\ (now <= t /\ t < tok.exp) =>
                         LET v == verify_session(<<tok>>, t, SECRET_KEY, at_exp) IN
                         /\ v.code = 200
                         /\ v.user = <<Identity(out.resp.user[1])>>
                         /\ v.user[1].email = strip(lower(data.email))
                   /\ t > tok.exp =>
                         verify_session(<<tok>>, t, SECRET_KEY, at_exp).code = 401
                   /\ verify_token(Forged(tok), SECRET_KEY, t, at_exp) = NoneValue
    /\ \A tok \in issued, at_exp \in BOOLEAN :
          /\ now < tok.exp =>
                verify_token(tok, SECRET_KEY, now, at_exp)
                    = <<[user_id |-> tok.user_id, email |-> tok.email, role |-> tok.role,
                         exp |-> tok.exp, iat |-> tok.iat]>>
          /\ now > tok.exp => verify_token(tok, SECRET_KEY, now, at_exp) = NoneValue
          /\ verify_session(<<Forged(tok)>>, now, SECRET_KEY, at_exp).code = 401

\* A session token and a remember-me token are held; the session token was
\* refused one second after its expiry, which the other outlives.
C23_Witness ==
    /\ resp.op = "verify"
    /\ resp.code = 401
    /\ \E tok \in issued : tok.exp = tok.iat + SESSION_TIMEOUT /\ now = tok.exp + 1
    /\ \E tok \in issued : tok.exp = tok.iat + RememberSeconds /\ now < tok.exp

\* C29: login answers an address without account exactly as it answers an
\* account with a wrong password, and reset-password answers an address
\* without account exactly as it answers one with an account.
C29_AccountExistenceHidden ==
    /\ \A d1 \in LoginRequests, d2 \in LoginRequests :
          (/\ d1.password # "" /\ d2.password # ""
           /\ strip(lower(d1.email)) # "" /\ strip(lower(d2.email)) # ""
           /\ get_user_by_email(strip(lower(d1.email))) = NoneValue
           /\ get_user_by_email(strip(lower(d2.email))) # NoneValue
           /\ login(d2, now, SECRET_KEY).resp.code # 200)
          => login(d1, now, SECRET_KEY).resp = login(d2, now, SECRET_KEY).resp
    /\ \A r1 \in ResetRequests, r2 \in ResetRequests :
          (strip(lower(r1.email)) # "" /\ strip(lower(r2.email)) # "")
          => reset_password(r1).resp = reset_password(r2).resp

\* A login has been refused with 401 while a client holds the token of an
\* earlier login, and both an address without account and a wrong password
\* are among the bodies that get this answer.
C29_Witness ==
    /\ resp.op = "login"
    /\ resp.code = 401
    /\ resp.message = "Invalid email or password"
    /\ issued # {}
    /\ \E d1 \in LoginRequests, d2 \in LoginRequests :
          /\ get_user_by_email(strip(lower(d1.email))) = NoneValue
          /\ get_user_by_email(strip(lower(d2.email))) # NoneValue
          /\ login(d1, now, SECRET_KEY).resp = resp
          /\ login(d2, now, SECRET_KEY).resp = resp

\* C30: a logout or a refresh leaves the server key as it was, so every
\* token that verified before the call still verifies and can still be
\* refreshed after it; and a refresh hands out a new token only for a header
\* whose token verifies.
C30_LogoutRefreshKeepSessions ==
    [][(resp'.op \in {"logout", "refresh"} /\ now' = now)
       => /\ SECRET_KEY' = SECRET_KEY
          /\ \A tok \in issued, at_exp \in BOOLEAN :
                verify_token(tok, SECRET_KEY, now, at_exp) # NoneValue
                => /\ tok \in issued'
                   /\ verify_token(tok, SECRET_KEY', now', at_exp) # NoneValue
                   /\ refresh_token(<<tok>>, now', SECRET_KEY', at_exp).resp.code = 200
          /\ issued' # issued
                => /\ resp'.op = "refresh"
                   /\ resp'.code = 200
                   /\ \E tok \in issued :
                         verify_token(tok, SECRET_KEY, now, TRUE) # NoneValue
          /\ \A h \in Headers, at_exp \in BOOLEAN :
                (refresh_token(h, now, SECRET_KEY, at_exp).resp.token # NoneValue)
                <=> (/\ h # NoneValue
                     /\ verify_token(h[1], SECRET_KEY, now, at_exp) # NoneValue)]_vars

\* A token has been refreshed some time after its login: the client holds
\* the old and the new one, and the old one still verifies.
C30_Witness ==
    /\ resp.op = "refresh"
    /\ resp.code = 200
    /\ \E old \in issued, new \in issued :
          /\ old.iat < new.iat
          /\ resp.token = <<new>>
          /\ new.exp = new.iat + SESSION_TIMEOUT
          /\ verify_token(old, SECRET_KEY, now, FALSE) # NoneValue

\* C28: cancelling a booking that is already cancelled, an hour or more
\* before its start, answers 200 and leaves the table exactly as it was.
C28_CancelIdempotent ==
    \A id \in DOMAIN bookings :
        (bookings[id].status = "cancelled" /\ ~TooLate(<<bookings[id]>>, now))
        => LET out == cancel_booking(bookings, now, id) IN
           /\ out.resp.code = 200
           /\ out.resp.message = "Booking cancelled successfully"
           /\ out.table = bookings

\* The first booking was cancelled, its slot was booked again, and then the
\* first booking was cancelled a second time.
C28_Witness ==
    /\ resp.op = "cancel"
    /\ resp.code = 200
    /\ resp.booking_id = 1
    /\ Len(bookings) = 2
    /\ bookings[1].status = "cancelled"
    /\ bookings[2].status # "cancelled"
    /\ bookings[2].room_id = bookings[1].room_id
    /\ bookings[2].date = bookings[1].date
    /\ bookings[2].start_time = bookings[1].start_time
    /\ bookings[2].end_time = bookings[1].end_time

\* C25: the date field of every stored booking is the calendar date of its
\* start and of its end timestamp.
C25_DateIsDateOfTimestamps ==
    \A i \in DOMAIN bookings :
        /\ bookings[i].date = <<bookings[i].start_time[1]>>
        /\ bookings[i].date = <<bookings[i].end_time[1]>>

\* C24: for every stored booking and every request whose timestamps the
\* handler's validation accepts, the overlap test of check_room_availability
\* on the strings gives the verdict the same test gives on the parsed
\* instants.
C24_LexicalVerdictIsInstantVerdict ==
    \A i \in DOMAIN bookings, data \in FormatRequests :
        (/\ fromisoformat(data.start_time) # ValueError
         /\ fromisoformat(data.end_time) # ValueError)
        => ((/\ LexLess(data.start_time, bookings[i].end_time)
             /\ LexLess(bookings[i].start_time, data.end_time))
            <=> InstantsOverlap(data, bookings[i]))

\* What a stored booking says, apart from its identifier.
Persisted(b) ==
    [room_id |-> b.room_id, user_email |-> b.user_email, date |-> b.date,
     start_time |-> b.start_time, end_time |-> b.end_time, status |-> b.status]

\* C26: on the same sequence of requests the in-memory variant answers each
\* request with the status and message of the store-backed variant, and the
\* two stores hold the same bookings.
C26_VariantsAgree ==
    /\ resp.op = "create_both"
       => /\ resp.auth.code = resp.app.code
          /\ resp.auth.message = resp.app.message
          /\ resp.auth.field = resp.app.field
    /\ {Persisted(BOOKINGS[i]) : i \in DOMAIN BOOKINGS}
           = {Persisted(bookings[i]) : i \in DOMAIN bookings}

\* C27: no listing of the rooms, with or without a date and times, shows
\* is_available true for a room whose status is not 'available'.
C27_UnavailableRoomNeverOffered ==
    resp.op = "rooms"
    => \A item \in resp.items : item.is_available => item.status = "available"

====
